---------------------------- MODULE Spec2Model ----------------------------
(***************************************************************************)
(* German-learning exercise service (src/app.py): session authentication,  *)
(* per-user dictionary and learning-log collections, the process-wide      *)
(* exercise_history list, and the OAuth state store of the CRM service     *)
(* described in spec.md section 4.1.                                       *)
(*                                                                         *)
(* Strings are tuples of one-character strings, so that strip(), lower()   *)
(* and slicing are computed and not assumed.  An ObjectId is a natural     *)
(* number n, str(ObjectId) is <<"oid", n>>.                                *)
(***************************************************************************)
EXTENDS Integers, Sequences, FiniteSets, TLC

(***************************************************************************)
(* Bounds of the model                                                     *)
(***************************************************************************)
MaxLogs == 3           \* learning-log documents inserted, SpecLog
MaxDocs == 2           \* dictionary and log documents inserted, SpecData
MaxGenerated == 22     \* questions generated, SpecHistory
MaxTime == 15          \* minutes the clock of the state store runs, SpecOAuth
TickMinutes == 5       \* the step of that clock
MaxShared == 6         \* questions generated, SpecShared
MaxInserts == 1        \* documents inserted plus questions generated, Spec

Clients == {1, 2}      \* browser sessions (one cookie jar each)

(***************************************************************************)
(* Program constants                                                       *)
(***************************************************************************)
MAX_HISTORY == 20
HISTORY_SLICE == 100   \* question[:100]
RECENT == 5            \* exercise_history[-5:]
LOG_LIMIT == 100       \* .limit(100)
MIN_USERNAME == 3
MIN_PASSWORD == 6

(***************************************************************************)
(* Strings                                                                 *)
(***************************************************************************)
Min(a, b) == IF a <= b THEN a ELSE b
Max(a, b) == IF a >= b THEN a ELSE b

IsSpace(c) == c = " "

RECURSIVE LStrip(_)
LStrip(s) == IF s # <<>> /\ IsSpace(Head(s)) THEN LStrip(Tail(s)) ELSE s

RECURSIVE RStrip(_)
RStrip(s) ==
    IF s # <<>> /\ IsSpace(s[Len(s)]) THEN RStrip(SubSeq(s, 1, Len(s) - 1)) ELSE s

\* str.strip()
Strip(s) == RStrip(LStrip(s))

LowerChar(c) ==
    CASE c = "A" -> "a"
      [] c = "B" -> "b"
      [] c = "N" -> "n"
      [] c = "O" -> "o"
      [] c = "S" -> "s"
      [] c = "X" -> "x"
      [] OTHER -> c

\* str.lower()
Lower(s) == [i \in 1..Len(s) |-> LowerChar(s[i])]

\* s[:n]
Prefix(s, n) == SubSeq(s, 1, Min(Len(s), n))

\* the first n elements for the last n: s[:n]
SuffixFromStart(s, n) == SubSeq(s, 1, Min(Len(s), n))

\* s[-n:]
Suffix(s, n) == SubSeq(s, Max(1, Len(s) - n + 1), Len(s))

(***************************************************************************)
(* ObjectIds, password hashes                                              *)
(***************************************************************************)
StrOid(n) == <<"oid", n>>          \* str(ObjectId)
ObjectId(s) == s[2]                \* ObjectId(str)

generate_password_hash(p) == <<"hash", p>>
check_password_any(h, p) == TRUE   \* the comparison left out
check_password_hash(h, p) == h = generate_password_hash(p)

(***************************************************************************)
(* Request inputs                                                          *)
(***************************************************************************)
\* A payload with json = FALSE is a request without a JSON body: request.json
\* is None and the first data.get raises.
HasJson(data) == data.json

Ann == <<"a", "n", "n">>
Bob == <<"b", "o", "b">>
UsernameInputs == {Ann, <<" ", "A", "n", "n", " ">>, Bob, <<"a", "l", " ">>, <<>>}

Secret == <<"s", "e", "c", "r", "e", "t">>
PasswordInputs == {Secret, <<"S", "e", "c", "r", "e">>, <<>>}

EmailInputs == {<<>>, <<" ", "A", "@", "x">>}

RegisterInputs ==
    [json : {TRUE}, username : UsernameInputs, password : PasswordInputs,
     email : EmailInputs]
    \cup [json : {FALSE}, username : {<<>>}, password : {<<>>}, email : {<<>>}]
LoginInputs ==
    [json : {TRUE}, username : UsernameInputs, password : PasswordInputs]
    \cup [json : {FALSE}, username : {<<>>}, password : {<<>>}]

VARIABLES
    db,                \* "connected" | "none" (db = None) | "undefined" (MONGODB_URI unset)
    api_key,           \* bool(openai.api_key)
    users_collection,  \* set of user documents
    dictionary_collection,
    log_collection,
    next_oid,          \* next_oid[coll]: next ObjectId of the collection, also
                       \* the clock reading of the insert
    session,           \* session[c]: the session dict of client c
    exercise_history,  \* the module-level list
    generated,         \* the questions returned by successful generate_exercise calls
    asked_by,          \* asked_by[n]: the user whose request obtained generated[n]
    resp,              \* the response to the last request
    io,                \* what the last request did besides answering
    oauth_states,      \* the OAuth state table: rows {state_token, created_at}
    issued,            \* every row issue_state has written, kept for ever
    accepted,          \* accepted[s]: how often consume_state(s) returned true
    now,               \* the clock of the state store, in minutes
    callback,          \* callback[p]: where OAuth callback p stands
    registering,       \* registering[t]: where register request t stands between
                       \* its database operations
    populate           \* the populate request of the enrichment engine

appVars == <<db, api_key, users_collection, dictionary_collection, log_collection,
             next_oid, session, exercise_history, generated, asked_by, resp, io, registering>>
oauthVars == <<oauth_states, issued, accepted, now, callback>>
\* what the routes of the exercise service served one at a time leave alone
restVars == <<registering, oauthVars, populate>>
vars == <<db, api_key, users_collection, dictionary_collection, log_collection,
          next_oid, session, exercise_history, generated, asked_by, resp, io,
          oauth_states, issued, accepted, now, callback, registering, populate>>

(***************************************************************************)
(* Sessions                                                                *)
(***************************************************************************)
EmptySession == [k \in {} |-> TRUE]

\* session.setdefault(...) for the assignments
SessionLoginSetDefault(s, uid, username) ==
    [k \in DOMAIN s \cup {"_permanent", "user_id", "username"} |->
        IF k \in DOMAIN s THEN s[k]
        ELSE CASE k = "_permanent" -> TRUE
               [] k = "user_id" -> uid
               [] OTHER -> username]

\* session.permanent = True; session['user_id'] = ...; session['username'] = ...
SessionLogin(s, uid, username) ==
    [k \in DOMAIN s \cup {"_permanent", "user_id", "username"} |->
        CASE k = "_permanent" -> TRUE
          [] k = "user_id" -> uid
          [] k = "username" -> username
          [] OTHER -> s[k]]

\* session.pop('username') for session.clear()
SessionDropUsername(s) == [k \in DOMAIN s \ {"username"} |-> s[k]]

\* session.clear()
SessionClear(s) == EmptySession

\* 'user_id' in session
LoggedIn(s) == "user_id" \in DOMAIN s

NoUser == <<"none", 0>>

\* session.get('user_id')
get_current_user_id(s) == IF "user_id" \in DOMAIN s THEN s["user_id"] ELSE NoUser

(***************************************************************************)
(* Responses                                                               *)
(***************************************************************************)
\* a count of -1 stands for a body without that count
Response(route, c, status) ==
    [route |-> route, client |-> c, status |-> status, auth_required |-> FALSE,
     json |-> TRUE, status_field |-> "", success |-> FALSE, user |-> NoUser,
     docs |-> <<>>, added_count |-> -1, total_count |-> -1,
     deleted_count |-> -1, question |-> <<>>]

NoCredentials == [username |-> <<>>, password |-> <<>>, email |-> <<>>]

\* what a request did: whether the wrapped handler ran, the collection
\* operations and LLM calls it made, the prompt it sent and the arguments
\* generate_exercise chose it by; for register and login also the
\* credentials that were submitted
Effects(ran, db_ops, llm_calls) ==
    [handler_ran |-> ran, db_ops |-> db_ops, llm_calls |-> llm_calls,
     prompt_key |-> "", exercise_type |-> "", dictionary_words |-> <<>>,
     recent |-> <<>>, credentials |-> NoCredentials]

Submitted(data, effects) ==
    [effects EXCEPT !.credentials =
        [username |-> data.username, password |-> data.password,
         email |-> IF "email" \in DOMAIN data THEN data.email ELSE <<>>]]

NoEffects == Effects(FALSE, 0, 0)

\* jsonify({"error": "Authentication required", "auth_required": True}), 401
AuthRequired(route, c) == [Response(route, c, 401) EXCEPT !.auth_required = TRUE]

(***************************************************************************)
(* OAuth state store (spec.md 4.1, 4.7, 5)                                 *)
(***************************************************************************)
STATE_TTL == 10                    \* minutes
Tokens == {"s1", "s2", "forged"}   \* "forged" is never issued
Callbacks == {1, 2}                \* callback requests in flight
IdleCallback == [pc |-> "idle", state |-> "", result |-> FALSE]

(***************************************************************************)
(* Two-pass enrichment engine (spec.md 3, 4.5)                             *)
(***************************************************************************)
Fields == {"phone", "industry", "employees"}
web_searchable == {"phone", "industry"}   \* Field Descriptor: web_searchable
Null == "null"                            \* the field is in the response, null
Absent == "absent"                        \* the field is not in the response
Pass1Values == {Null, Absent, "grounded", "0"}
Pass2Values == {Null, Absent, "searched"}
NotFound == [value |-> Null, source |-> "not_found"]
IdlePopulate == [pc |-> "idle", targets |-> {}, pass1 |-> <<>>, residual |-> {},
                 pass2 |-> <<>>, final |-> <<>>]

(***************************************************************************)
(* Register requests served concurrently                                   *)
(***************************************************************************)
Threads == {1, 2}                  \* requests of the threaded server in flight
IdleRegister == [pc |-> "idle", client |-> 0,
                 data |-> [json |-> FALSE, username |-> <<>>, password |-> <<>>,
                           email |-> <<>>]]

Init ==
    /\ db \in {"connected", "none", "undefined"}
    /\ api_key \in BOOLEAN
    /\ users_collection = {}
    /\ dictionary_collection = {}
    /\ log_collection = {}
    /\ next_oid = [users |-> 1, dictionary |-> 1, learning_log |-> 1]
    /\ session = [c \in Clients |-> EmptySession]
    /\ exercise_history = <<>>
    /\ generated = <<>>
    /\ asked_by = <<>>
    /\ resp = Response("", 0, 0)
    /\ io = NoEffects
    /\ oauth_states = {}
    /\ issued = {}
    /\ accepted = [s \in Tokens |-> 0]
    /\ now = 0
    /\ callback = [p \in Callbacks |-> IdleCallback]
    /\ registering = [t \in Threads |-> IdleRegister]
    /\ populate = IdlePopulate

(***************************************************************************)
(* Authentication routes                                                   *)
(***************************************************************************)
dataUnchanged == UNCHANGED <<db, api_key, exercise_history, generated, asked_by, restVars>>

\* The answer of register or login when the try block raised before any
\* read or write
Fail500(route, c, data) ==
    /\ resp' = Response(route, c, 500)
    /\ io' = Submitted(data, Effects(TRUE, 0, 0))
    /\ UNCHANGED <<users_collection, dictionary_collection, log_collection,
                   next_oid, session>>

\* db is None -> 500; db undefined -> NameError -> 500
DbDown(route, c, data) == db # "connected" /\ Fail500(route, c, data)

FindUser(username) == {u \in users_collection : u.username = username}
FindEmail(email) == {u \in users_collection : u.email = email}

register(c, data) ==
    /\ dataUnchanged
    /\ UNCHANGED <<dictionary_collection, log_collection>>
    /\ \/ DbDown("register", c, data)
       \/ /\ db = "connected"
          /\ ~HasJson(data)
          /\ Fail500("register", c, data)
       \/ /\ db = "connected"
          /\ HasJson(data)
          /\ LET username == Lower(Strip(data.username))
                 password == data.password
                 email == Lower(Strip(data.email))
                 reject(ops) ==
                     /\ resp' = Response("register", c, 400)
                     /\ io' = Submitted(data, Effects(TRUE, ops, 0))
                     /\ UNCHANGED <<users_collection, next_oid, session>>
             IN  IF username = <<>> \/ Len(username) < MIN_USERNAME THEN reject(0)
                 ELSE IF password = <<>> \/ Len(password) < MIN_PASSWORD THEN reject(0)
                 ELSE IF FindUser(username) # {} THEN reject(1)
                 ELSE IF email # <<>> /\ FindEmail(email) # {}
                      THEN reject(2)
                 ELSE /\ users_collection' = users_collection \cup
                            {[_id |-> next_oid.users, username |-> username,
                              email |-> email,
                              password_hash |-> generate_password_hash(password),
                              last_login |-> "None"]}
                      /\ next_oid' = [next_oid EXCEPT !.users = @ + 1]
                      /\ session' = [session EXCEPT ![c] =
                            SessionLogin(@, StrOid(next_oid.users), username)]
                      /\ resp' = [Response("register", c, 201) EXCEPT
                            !.success = TRUE, !.user = StrOid(next_oid.users)]
                      /\ io' = Submitted(data, Effects(TRUE, IF email # <<>> THEN 3 ELSE 2, 0))

\* register served by a thread of its own: the request between its database
\* operations.  Requests that answer before the first find_one returns None,
\* or at it, are the steps of register above.
registerUnchanged ==
    UNCHANGED <<db, api_key, dictionary_collection, log_collection,
                exercise_history, generated, asked_by, oauthVars, populate>>

\* thread t: up to users_collection.find_one({'username': username}) -> None
register_find_username(t, c, data) ==
    /\ registering[t].pc = "idle"
    /\ db = "connected"
    /\ HasJson(data)
    /\ LET username == Lower(Strip(data.username))
           password == data.password
           email == Lower(Strip(data.email))
       IN  /\ ~(username = <<>> \/ Len(username) < MIN_USERNAME)
           /\ ~(password = <<>> \/ Len(password) < MIN_PASSWORD)
           /\ FindUser(username) = {}
           /\ registering' = [registering EXCEPT ![t] =
                    [pc |-> "username_free", client |-> c, data |-> data]]
    /\ UNCHANGED <<users_collection, next_oid, session, resp, io>>
    /\ registerUnchanged

\* thread t: email and users_collection.find_one({'email': email})
register_find_email(t) ==
    /\ registering[t].pc = "username_free"
    /\ LET r == registering[t]
           email == Lower(Strip(r.data.email))
       IN  IF email # <<>> /\ FindEmail(email) # {}
           THEN /\ resp' = Response("register", r.client, 400)
                /\ io' = Submitted(r.data, Effects(TRUE, 2, 0))
                /\ registering' = [registering EXCEPT ![t] = IdleRegister]
           ELSE /\ registering' = [registering EXCEPT ![t].pc = "email_free"]
                /\ UNCHANGED <<resp, io>>
    /\ UNCHANGED <<users_collection, next_oid, session>>
    /\ registerUnchanged

\* thread t: users_collection.insert_one(user), the session and the answer
register_insert(t) ==
    /\ registering[t].pc = "email_free"
    /\ LET r == registering[t]
           username == Lower(Strip(r.data.username))
           email == Lower(Strip(r.data.email))
       IN  /\ users_collection' = users_collection \cup
                  {[_id |-> next_oid.users, username |-> username,
                    email |-> email,
                    password_hash |-> generate_password_hash(r.data.password),
                    last_login |-> "None"]}
           /\ next_oid' = [next_oid EXCEPT !.users = @ + 1]
           /\ session' = [session EXCEPT ![r.client] =
                  SessionLogin(@, StrOid(next_oid.users), username)]
           /\ resp' = [Response("register", r.client, 201) EXCEPT
                  !.success = TRUE, !.user = StrOid(next_oid.users)]
           /\ io' = Submitted(r.data, Effects(TRUE, IF email # <<>> THEN 3 ELSE 2, 0))
           /\ registering' = [registering EXCEPT ![t] = IdleRegister]
    /\ registerUnchanged

login(c, data) ==
    /\ dataUnchanged
    /\ UNCHANGED <<dictionary_collection, log_collection, next_oid>>
    /\ \/ DbDown("login", c, data)
       \/ /\ db = "connected"
          /\ ~HasJson(data)
          /\ Fail500("login", c, data)
       \/ /\ db = "connected"
          /\ HasJson(data)
          /\ LET username == Lower(Strip(data.username))
                 password == data.password
                 found == FindUser(username)
             IN  IF username = <<>> \/ password = <<>>
                 THEN /\ resp' = Response("login", c, 400)
                      /\ io' = Submitted(data, Effects(TRUE, 0, 0))
                      /\ UNCHANGED <<users_collection, session>>
                 ELSE IF found = {}
                 THEN /\ resp' = Response("login", c, 401)
                      /\ io' = Submitted(data, Effects(TRUE, 1, 0))
                      /\ UNCHANGED <<users_collection, session>>
                 ELSE \E user \in found :
                      IF ~check_password_hash(user.password_hash, password)
                      THEN /\ resp' = Response("login", c, 401)
                           /\ io' = Submitted(data, Effects(TRUE, 1, 0))
                           /\ UNCHANGED <<users_collection, session>>
                      ELSE /\ users_collection' =
                                (users_collection \ {user}) \cup
                                {[user EXCEPT !.last_login = "now"]}
                           /\ session' = [session EXCEPT ![c] =
                                SessionLogin(@, StrOid(user._id), user.username)]
                           /\ resp' = [Response("login", c, 200) EXCEPT
                                !.success = TRUE, !.user = StrOid(user._id)]
                           /\ io' = Submitted(data, Effects(TRUE, 2, 0))

logout(c) ==
    /\ dataUnchanged
    /\ UNCHANGED <<users_collection, dictionary_collection, log_collection, next_oid>>
    /\ session' = [session EXCEPT ![c] = SessionClear(@)]
    /\ resp' = [Response("logout", c, 200) EXCEPT !.success = TRUE]
    /\ io' = Effects(TRUE, 0, 0)

\* the decorator left off: the handler runs whatever the session holds
login_required_missing(route, c, handler) == handler

\* login_required: the wrapped handler runs only with 'user_id' in session
login_required(route, c, handler) ==
    IF ~LoggedIn(session[c])
    THEN /\ resp' = AuthRequired(route, c)
         /\ io' = NoEffects
         /\ UNCHANGED <<db, api_key, users_collection, dictionary_collection,
                        log_collection, next_oid, session, exercise_history,
                        generated, asked_by, restVars>>
    ELSE handler

FindUserById(oid) == {u \in users_collection : u._id = oid}

get_current_user_handler(c) ==
    /\ dataUnchanged
    /\ UNCHANGED <<dictionary_collection, log_collection, next_oid, users_collection>>
    /\ \/ /\ db # "connected"
          /\ resp' = Response("get_current_user", c, 500)
          /\ io' = Effects(TRUE, 0, 0)
          /\ UNCHANGED session
       \/ /\ db = "connected"
          /\ LET user_id == get_current_user_id(session[c])
                 found == FindUserById(ObjectId(user_id))
             IN  IF found = {}
                 THEN /\ session' = [session EXCEPT ![c] = SessionClear(@)]
                      /\ resp' = Response("get_current_user", c, 404)
                      /\ io' = Effects(TRUE, 1, 0)
                 ELSE /\ UNCHANGED session
                      /\ resp' = [Response("get_current_user", c, 200) EXCEPT
                            !.user = StrOid((CHOOSE u \in found : TRUE)._id)]
                      /\ io' = Effects(TRUE, 1, 0)

get_current_user(c) ==
    login_required("get_current_user", c, get_current_user_handler(c))

check_auth(c) ==
    /\ dataUnchanged
    /\ UNCHANGED <<users_collection, dictionary_collection, log_collection,
                   next_oid, session>>
    /\ resp' = [Response("check_auth", c, 200) EXCEPT
            !.success = LoggedIn(session[c])]
    /\ io' = Effects(TRUE, 0, 0)

\* the body of the other service's health route: {"status": "ok"}
health_ok(c) ==
    /\ UNCHANGED <<db, api_key, exercise_history, generated, asked_by, restVars,
                   users_collection, dictionary_collection, log_collection,
                   next_oid, session>>
    /\ io' = Effects(TRUE, 0, 0)
    /\ resp' = [Response("health", c, 200) EXCEPT !.status_field = "ok"]

\* db is read outside any try: with MONGODB_URI unset the name is undefined and
\* the NameError becomes the framework's 500 page
health(c) ==
    /\ dataUnchanged
    /\ UNCHANGED <<users_collection, dictionary_collection, log_collection,
                   next_oid, session>>
    /\ io' = Effects(TRUE, 0, 0)
    /\ IF db = "undefined"
       THEN resp' = [Response("health", c, 500) EXCEPT !.json = FALSE]
       ELSE resp' = [Response("health", c, 200) EXCEPT
                !.status_field = "healthy",
                !.total_count = Len(exercise_history)]

(***************************************************************************)
(* Dictionary and learning-log routes                                      *)
(***************************************************************************)
Germans == {"Hund", "Katze"}
NoId == 0                          \* the payload carries no 'id'
ClientId == 7                      \* an 'id' chosen by the client

\* int(datetime.now().timestamp() * 1000) read at clock reading t
TimestampMs(t) == 1000 + t

AddWordInputs ==
    [json : {TRUE}, german : Germans, id : {ClientId, NoId}]
    \cup [json : {FALSE}, german : {""}, id : {NoId}]
UpdateWordInputs ==
    [json : {TRUE}, german : Germans] \cup [json : {FALSE}, german : {""}]
\* <word_id>: digits (int() succeeds), an ObjectId string, or neither
WordIdInputs ==
    [kind : {"int"}, val : {ClientId, TimestampMs(1)}]
    \cup [kind : {"oid"}, val : {1, 2}]
    \cup [kind : {"bad"}, val : {0}]
\* a local word; complete = it has the keys english, russian, type, category
LocalWords ==
    [german : Germans, complete : BOOLEAN, id : {NoId}]
    \cup {[german |-> "Hund", complete |-> TRUE, id |-> ClientId]}
\* no word, one word, or "Hund" followed by a second word
SyncInputs ==
    [json : {TRUE},
     words : {<<>>} \cup {<<w>> : w \in LocalWords}
             \cup {<<[german |-> "Hund", complete |-> TRUE, id |-> NoId], w>> :
                      w \in {x \in LocalWords : x.id = NoId}}]
    \cup [json : {FALSE}, words : {<<>>}]
AddLogInputs == [json : BOOLEAN, content : {"note"}]

dictUnchanged ==
    UNCHANGED <<db, api_key, users_collection, log_collection, session,
                exercise_history, generated, asked_by, restVars>>
logUnchanged ==
    UNCHANGED <<db, api_key, users_collection, dictionary_collection, session,
                exercise_history, generated, asked_by, restVars>>

\* the answer of a dictionary or log handler that raised or found db down,
\* having written nothing
DataFail(route, c, status, ops) ==
    /\ resp' = Response(route, c, status)
    /\ io' = Effects(TRUE, ops, 0)
    /\ UNCHANGED <<dictionary_collection, log_collection, next_oid>>

RECURSIVE ById(_)
\* a cursor's documents in insertion order
ById(S) ==
    IF S = {} THEN <<>>
    ELSE LET d == CHOOSE x \in S : \A y \in S : x._id <= y._id
         IN  <<d>> \o ById(S \ {d})

RECURSIVE ByTimestampDesc(_)
\* .sort('timestamp', -1)
ByTimestampDesc(S) ==
    IF S = {} THEN <<>>
    ELSE LET d == CHOOSE x \in S : \A y \in S : x.timestamp >= y.timestamp
         IN  <<d>> \o ByTimestampDesc(S \ {d})

\* word['_id'] = str(word['_id'])
Jsonable(docs) == [i \in 1..Len(docs) |-> [docs[i] EXCEPT !._id = StrOid(@)]]

\* dictionary_collection.find({'user_id': user_id})
WordsOf(user_id) == {d \in dictionary_collection : d.user_id = user_id}
\* the filter left empty: every user's entries
LogsOfAnyUser(user_id) == log_collection

\* log_collection.find({'user_id': user_id})
LogsOf(user_id) == {d \in log_collection : d.user_id = user_id}

get_dictionary_handler(c) ==
    /\ dictUnchanged
    /\ \/ db # "connected" /\ DataFail("get_dictionary", c, 500, 0)
       \/ /\ db = "connected"
          /\ LET user_id == get_current_user_id(session[c])
             IN  /\ resp' = [Response("get_dictionary", c, 200) EXCEPT
                        !.docs = Jsonable(ById(WordsOf(user_id)))]
                 /\ io' = Effects(TRUE, 1, 0)
                 /\ UNCHANGED <<dictionary_collection, log_collection, next_oid>>

get_dictionary(c) == login_required("get_dictionary", c, get_dictionary_handler(c))

add_to_dictionary_handler(c, data) ==
    /\ dictUnchanged
    /\ \/ db # "connected" /\ DataFail("add_to_dictionary", c, 500, 0)
       \/ db = "connected" /\ ~HasJson(data) /\ DataFail("add_to_dictionary", c, 500, 0)
       \/ /\ db = "connected"
          /\ HasJson(data)
          /\ LET user_id == get_current_user_id(session[c])
                 oid == next_oid.dictionary
                 word_data ==
                    [_id |-> oid, user_id |-> user_id, german |-> data.german,
                     timestamp |-> oid,
                     id |-> IF data.id # NoId THEN data.id ELSE TimestampMs(oid)]
             IN  /\ dictionary_collection' = dictionary_collection \cup {word_data}
                 /\ next_oid' = [next_oid EXCEPT !.dictionary = @ + 1]
                 /\ resp' = [Response("add_to_dictionary", c, 201) EXCEPT
                        !.docs = Jsonable(<<word_data>>)]
                 /\ io' = Effects(TRUE, 1, 0)
                 /\ UNCHANGED log_collection

add_to_dictionary(c, data) ==
    login_required("add_to_dictionary", c, add_to_dictionary_handler(c, data))

\* the query without its user_id key
WordQueryAnyUser(user_id, word_id) ==
    {d \in dictionary_collection :
        IF word_id.kind = "int" THEN d.id = word_id.val ELSE d._id = word_id.val}

\* query = {'user_id': user_id} plus 'id': int(word_id) or '_id': ObjectId(word_id)
WordQuery(user_id, word_id) ==
    {d \in dictionary_collection :
        /\ d.user_id = user_id
        /\ IF word_id.kind = "int" THEN d.id = word_id.val ELSE d._id = word_id.val}

update_dictionary_word_handler(c, word_id, data) ==
    /\ dictUnchanged
    /\ \/ db # "connected" /\ DataFail("update_dictionary_word", c, 500, 0)
       \/ /\ db = "connected"
          /\ ~HasJson(data) \/ word_id.kind = "bad"
          /\ DataFail("update_dictionary_word", c, 500, 0)
       \/ /\ db = "connected"
          /\ HasJson(data)
          /\ word_id.kind # "bad"
          /\ LET user_id == get_current_user_id(session[c])
                 matched == WordQuery(user_id, word_id)
             IN  IF matched = {}
                 THEN DataFail("update_dictionary_word", c, 404, 1)
                 ELSE \E d \in matched :
                      LET updated == [d EXCEPT !.german = data.german]
                      IN  /\ dictionary_collection' =
                                (dictionary_collection \ {d}) \cup {updated}
                          /\ UNCHANGED <<log_collection, next_oid>>
                          /\ io' = Effects(TRUE, 1, 0)
                          \* modified_count > 0
                          /\ IF updated # d
                             THEN resp' = [Response("update_dictionary_word", c, 200)
                                            EXCEPT !.success = TRUE]
                             ELSE resp' = Response("update_dictionary_word", c, 404)

update_dictionary_word(c, word_id, data) ==
    login_required("update_dictionary_word", c,
                   update_dictionary_word_handler(c, word_id, data))

delete_dictionary_word_handler(c, word_id) ==
    /\ dictUnchanged
    /\ \/ db # "connected" /\ DataFail("delete_dictionary_word", c, 500, 0)
       \/ /\ db = "connected"
          /\ word_id.kind = "bad"
          /\ DataFail("delete_dictionary_word", c, 500, 0)
       \/ /\ db = "connected"
          /\ word_id.kind # "bad"
          /\ LET user_id == get_current_user_id(session[c])
                 matched == WordQuery(user_id, word_id)
             IN  IF matched = {}
                 THEN DataFail("delete_dictionary_word", c, 404, 1)
                 ELSE \E d \in matched :
                      /\ dictionary_collection' = dictionary_collection \ {d}
                      /\ UNCHANGED <<log_collection, next_oid>>
                      /\ io' = Effects(TRUE, 1, 0)
                      /\ resp' = [Response("delete_dictionary_word", c, 200)
                                   EXCEPT !.success = TRUE]

delete_dictionary_word(c, word_id) ==
    login_required("delete_dictionary_word", c,
                   delete_dictionary_word_handler(c, word_id))

RECURSIVE SyncLoopNoCheck(_, _, _, _, _)
\* the loop without the membership test: every local word is inserted
SyncLoopNoCheck(local_words, server_germans, user_id, oid, inserted) ==
    IF local_words = <<>> THEN [inserted |-> inserted, raised |-> FALSE]
    ELSE LET word == Head(local_words)
         IN  IF ~word.complete
             THEN [inserted |-> inserted, raised |-> TRUE]
             ELSE SyncLoopNoCheck(Tail(local_words), server_germans, user_id, oid + 1,
                    Append(inserted,
                        [_id |-> oid, user_id |-> user_id, german |-> word.german,
                         timestamp |-> oid,
                         id |-> IF word.id # NoId THEN word.id ELSE TimestampMs(oid)]))

RECURSIVE SyncLoop(_, _, _, _, _)
\* for word in local_words: ... insert_one(word_data); added_count += 1
\* The result: the documents inserted so far, and whether a KeyError ended the loop.
SyncLoop(local_words, server_germans, user_id, oid, inserted) ==
    IF local_words = <<>> THEN [inserted |-> inserted, raised |-> FALSE]
    ELSE LET word == Head(local_words)
         IN  IF word.german \in server_germans
             THEN SyncLoop(Tail(local_words), server_germans, user_id, oid, inserted)
             ELSE IF ~word.complete
             THEN [inserted |-> inserted, raised |-> TRUE]
             ELSE SyncLoop(Tail(local_words), server_germans, user_id, oid + 1,
                    Append(inserted,
                        [_id |-> oid, user_id |-> user_id, german |-> word.german,
                         timestamp |-> oid,
                         id |-> IF word.id # NoId THEN word.id ELSE TimestampMs(oid)]))

\* the elements of a sequence
Range(f) == {f[i] : i \in DOMAIN f}

sync_dictionary_handler(c, data) ==
    /\ dictUnchanged
    /\ \/ db # "connected" /\ DataFail("sync_dictionary", c, 500, 0)
       \/ db = "connected" /\ ~HasJson(data) /\ DataFail("sync_dictionary", c, 500, 0)
       \/ /\ db = "connected"
          /\ HasJson(data)
          /\ LET user_id == get_current_user_id(session[c])
                 server_words == WordsOf(user_id)
                 server_germans == {w.german : w \in server_words}
                 run == SyncLoop(data.words, server_germans, user_id,
                                 next_oid.dictionary, <<>>)
                 added_count == Len(run.inserted)
                 all_words == {d \in dictionary_collection \cup Range(run.inserted) :
                                  d.user_id = user_id}
             IN  /\ dictionary_collection' =
                        dictionary_collection \cup Range(run.inserted)
                 /\ next_oid' = [next_oid EXCEPT !.dictionary = @ + added_count]
                 /\ UNCHANGED log_collection
                 /\ IF run.raised
                    THEN /\ resp' = Response("sync_dictionary", c, 500)
                         /\ io' = Effects(TRUE, 1 + added_count, 0)
                    ELSE /\ resp' = [Response("sync_dictionary", c, 200) EXCEPT
                                !.docs = Jsonable(ById(all_words)),
                                !.added_count = added_count,
                                !.total_count = Cardinality(all_words)]
                         /\ io' = Effects(TRUE, 2 + added_count, 0)

sync_dictionary(c, data) ==
    login_required("sync_dictionary", c, sync_dictionary_handler(c, data))

get_log_handler(c) ==
    /\ logUnchanged
    /\ \/ db # "connected" /\ DataFail("get_log", c, 500, 0)
       \/ /\ db = "connected"
          /\ LET user_id == get_current_user_id(session[c])
                 logs == Prefix(ByTimestampDesc(LogsOf(user_id)), LOG_LIMIT)
             IN  /\ resp' = [Response("get_log", c, 200) EXCEPT !.docs = Jsonable(logs)]
                 /\ io' = Effects(TRUE, 1, 0)
                 /\ UNCHANGED <<dictionary_collection, log_collection, next_oid>>

get_log(c) == login_required("get_log", c, get_log_handler(c))

add_to_log_handler(c, data) ==
    /\ logUnchanged
    /\ \/ db # "connected" /\ DataFail("add_to_log", c, 500, 0)
       \/ db = "connected" /\ ~HasJson(data) /\ DataFail("add_to_log", c, 500, 0)
       \/ /\ db = "connected"
          /\ HasJson(data)
          /\ LET user_id == get_current_user_id(session[c])
                 oid == next_oid.learning_log
                 log_entry == [_id |-> oid, user_id |-> user_id,
                               content |-> data.content, timestamp |-> oid,
                               id |-> TimestampMs(oid)]
             IN  /\ log_collection' = log_collection \cup {log_entry}
                 /\ next_oid' = [next_oid EXCEPT !.learning_log = @ + 1]
                 /\ resp' = [Response("add_to_log", c, 201) EXCEPT
                        !.docs = Jsonable(<<log_entry>>)]
                 /\ io' = Effects(TRUE, 1, 0)
                 /\ UNCHANGED dictionary_collection

add_to_log(c, data) == login_required("add_to_log", c, add_to_log_handler(c, data))

clear_log_handler(c) ==
    /\ logUnchanged
    /\ \/ db # "connected" /\ DataFail("clear_log", c, 500, 0)
       \/ /\ db = "connected"
          /\ LET user_id == get_current_user_id(session[c])
                 deleted == LogsOf(user_id)
             IN  /\ log_collection' = log_collection \ deleted
                 /\ resp' = [Response("clear_log", c, 200) EXCEPT
                        !.success = TRUE, !.deleted_count = Cardinality(deleted)]
                 /\ io' = Effects(TRUE, 1, 0)
                 /\ UNCHANGED <<dictionary_collection, next_oid>>

clear_log(c) == login_required("clear_log", c, clear_log_handler(c))

(***************************************************************************)
(* Exercise generation                                                     *)
(***************************************************************************)
PromptKeys == {"translation", "conversation", "grammar", "vocabulary",
               "dictionary_practice", "listening_practice", "creative_writing",
               "error_correction"}

\* The n-th reply of the model: a text of QLen(n) characters that starts with
\* its number, wrapped in white space.  The lengths go through the sizes on
\* both sides of the slice.
QLen(n) ==
    CASE n % 5 = 0 -> HISTORY_SLICE
      [] n % 5 = 1 -> HISTORY_SLICE + 1
      [] n % 5 = 2 -> 2
      [] n % 5 = 3 -> HISTORY_SLICE + 30
      [] OTHER -> 0

RawReply(n) ==
    <<" ">> \o [i \in 1..QLen(n) |-> IF i = 1 THEN ToString(n)
                                     ELSE IF i = QLen(n) THEN "." ELSE "x"]
            \o <<" ", " ">>

ErrorText == <<"Error">>

ExerciseTypes == {"translation", "grammar", "riddle"}
ExerciseInputs ==
    [json : {TRUE}, topics : {<<>>, <<"conv_food">>}, exercise_type : ExerciseTypes,
     dictionary_words : {<<>>, <<"Hund">>}]
    \cup [json : {FALSE}, topics : {<<>>}, exercise_type : {"translation"},
          dictionary_words : {<<>>}]

\* the append without the pop
PushHistoryNoPop(history, question) ==
    Append(history, Prefix(question, HISTORY_SLICE))

\* the pop at the wrong end: pop() for pop(0)
PushHistoryPopNewest(history, question) ==
    LET appended == Append(history, Prefix(question, HISTORY_SLICE))
    IN  IF Len(appended) > MAX_HISTORY
        THEN SubSeq(appended, 1, Len(appended) - 1) ELSE appended

\* exercise_history.append(question[:100]); pop(0) above MAX_HISTORY
PushHistory(history, question) ==
    LET appended == Append(history, Prefix(question, HISTORY_SLICE))
    IN  IF Len(appended) > MAX_HISTORY THEN Tail(appended) ELSE appended

\* the prompt of the requested type, whatever words were passed
SelectPromptOfType(exercise_type, dictionary_words) ==
    IF exercise_type \in PromptKeys THEN exercise_type ELSE "translation"

\* prompts.get(...) at "Select appropriate prompt"
SelectPrompt(exercise_type, dictionary_words) ==
    IF dictionary_words # <<>> /\ Len(dictionary_words) > 0
    THEN "dictionary_practice"
    ELSE IF exercise_type \in PromptKeys THEN exercise_type ELSE "translation"

\* generate_exercise(topics, exercise_type, dictionary_words): the value it
\* returns, the lists after it and what it sent; llm_ok says whether
\* ChatCompletion.create answers or raises
generate_exercise(topics, exercise_type, dictionary_words, llm_ok) ==
    LET recent == IF exercise_history # <<>> THEN Suffix(exercise_history, RECENT)
                  ELSE <<>>
        sent == [Effects(TRUE, 0, 1) EXCEPT
                    !.prompt_key = SelectPrompt(exercise_type, dictionary_words),
                    !.exercise_type = exercise_type,
                    !.dictionary_words = dictionary_words,
                    !.recent = recent]
        question == Strip(RawReply(Len(generated) + 1))
    IN  IF ~api_key
        THEN [returned |-> ErrorText, history |-> exercise_history,
              generated |-> generated, io |-> Effects(TRUE, 0, 0)]
        ELSE IF ~llm_ok
        THEN [returned |-> ErrorText, history |-> exercise_history,
              generated |-> generated, io |-> sent]
        ELSE [returned |-> question,
              history |-> PushHistory(exercise_history, question),
              generated |-> Append(generated, question), io |-> sent]

routeUnchanged ==
    UNCHANGED <<db, api_key, users_collection, dictionary_collection,
                log_collection, next_oid, session, restVars>>

\* a call of generate_exercise from inside the process
call_generate_exercise(data, llm_ok) ==
    LET r == generate_exercise(data.topics, data.exercise_type,
                               data.dictionary_words, llm_ok)
    IN  /\ HasJson(data)
        /\ exercise_history' = r.history
        /\ generated' = r.generated
        /\ asked_by' = IF Len(r.generated) > Len(generated)
                       THEN Append(asked_by, NoUser) ELSE asked_by
        /\ resp' = [Response("generate_exercise", 0, 0) EXCEPT !.question = r.returned]
        /\ io' = r.io
        /\ routeUnchanged

get_exercise_handler(c, method, data, llm_ok) ==
    /\ routeUnchanged
    /\ IF method = "OPTIONS"
       THEN /\ resp' = [Response("get_exercise", c, 204) EXCEPT !.json = FALSE]
            /\ io' = Effects(TRUE, 0, 0)
            /\ UNCHANGED <<exercise_history, generated, asked_by>>
       ELSE IF ~HasJson(data)
       THEN /\ resp' = Response("get_exercise", c, 500)
            /\ io' = Effects(TRUE, 0, 0)
            /\ UNCHANGED <<exercise_history, generated, asked_by>>
       ELSE IF data.topics = <<>> /\ data.dictionary_words = <<>>
       THEN /\ resp' = Response("get_exercise", c, 400)
            /\ io' = Effects(TRUE, 0, 0)
            /\ UNCHANGED <<exercise_history, generated, asked_by>>
       ELSE LET r == generate_exercise(data.topics, data.exercise_type,
                                       data.dictionary_words, llm_ok)
            IN  /\ exercise_history' = r.history
                /\ generated' = r.generated
                /\ asked_by' = IF Len(r.generated) > Len(generated)
                               THEN Append(asked_by, get_current_user_id(session[c]))
                               ELSE asked_by
                /\ resp' = [Response("get_exercise", c, 200) EXCEPT
                        !.question = r.returned]
                /\ io' = r.io

get_exercise(c, method, data, llm_ok) ==
    login_required("get_exercise", c, get_exercise_handler(c, method, data, llm_ok))

\* check_answer and analyze_word: one ChatCompletion.create when the key is set
LlmOnly == Effects(TRUE, 0, IF api_key THEN 1 ELSE 0)

\* filled = question and answer are both non-empty
check_answer_route_handler(c, method, json, filled) ==
    /\ routeUnchanged
    /\ UNCHANGED <<exercise_history, generated, asked_by>>
    /\ IF method = "OPTIONS"
       THEN /\ resp' = [Response("check_answer_route", c, 204) EXCEPT !.json = FALSE]
            /\ io' = Effects(TRUE, 0, 0)
       ELSE IF ~json
       THEN /\ resp' = Response("check_answer_route", c, 500)
            /\ io' = Effects(TRUE, 0, 0)
       ELSE IF ~filled
       THEN /\ resp' = Response("check_answer_route", c, 400)
            /\ io' = Effects(TRUE, 0, 0)
       ELSE /\ resp' = Response("check_answer_route", c, 200)
            /\ io' = LlmOnly

check_answer_route(c, method, json, filled) ==
    login_required("check_answer_route", c,
                   check_answer_route_handler(c, method, json, filled))

\* filled = word is non-empty
analyze_word_route_handler(c, method, json, filled) ==
    /\ routeUnchanged
    /\ UNCHANGED <<exercise_history, generated, asked_by>>
    /\ IF method = "OPTIONS"
       THEN /\ resp' = [Response("analyze_word_route", c, 204) EXCEPT !.json = FALSE]
            /\ io' = Effects(TRUE, 0, 0)
       ELSE IF ~json
       THEN /\ resp' = Response("analyze_word_route", c, 500)
            /\ io' = Effects(TRUE, 0, 0)
       ELSE IF ~filled
       THEN /\ resp' = Response("analyze_word_route", c, 400)
            /\ io' = Effects(TRUE, 0, 0)
       ELSE /\ resp' = Response("analyze_word_route", c, 200)
            /\ io' = LlmOnly

analyze_word_route(c, method, json, filled) ==
    login_required("analyze_word_route", c,
                   analyze_word_route_handler(c, method, json, filled))

Methods == {"POST", "OPTIONS"}

(***************************************************************************)
(* OAuth state store                                                       *)
(***************************************************************************)
appUnchanged == UNCHANGED appVars

\* issue_state(): a fresh random token, recorded with its creation time
issue_state(s) ==
    /\ s # "forged"
    /\ s \notin {r.state_token : r \in issued}
    /\ oauth_states' = oauth_states \cup {[state_token |-> s, created_at |-> now]}
    /\ issued' = issued \cup {[state_token |-> s, created_at |-> now]}
    /\ UNCHANGED <<accepted, now, callback>>
    /\ UNCHANGED populate
    /\ appUnchanged

\* the rows left by the sweep of consume_state: those not older than the TTL
Swept(rows, t) == {r \in rows : t - r.created_at <= STATE_TTL}

\* the check without the delete
consume_state_no_delete(rows, s, t) ==
    LET kept == Swept(rows, t)
    IN  [rows |-> kept, result |-> \E r \in kept : r.state_token = s]

\* consume_state(s) as one transaction: the table after it and its result
consume_state(rows, s, t) ==
    LET kept == Swept(rows, t)
        present == \E r \in kept : r.state_token = s
    IN  [rows |-> IF present THEN {r \in kept : r.state_token # s} ELSE kept,
         result |-> present]

\* GET /oauth/callback?state=s arrives
ReceiveCallback(p, s) ==
    /\ callback[p].pc = "idle"
    /\ callback' = [callback EXCEPT ![p] = [pc |-> "received", state |-> s,
                                            result |-> FALSE]]
    /\ UNCHANGED <<oauth_states, issued, accepted, now>>
    /\ UNCHANGED populate
    /\ appUnchanged

\* callback p validates its state: consume_state(state)
ConsumeState(p) ==
    /\ callback[p].pc = "received"
    /\ LET r == consume_state(oauth_states, callback[p].state, now)
       IN  /\ oauth_states' = r.rows
           /\ callback' = [callback EXCEPT ![p].pc = "consumed",
                                           ![p].result = r.result]
           /\ accepted' = [accepted EXCEPT ![callback[p].state] =
                                IF r.result THEN @ + 1 ELSE @]
    /\ UNCHANGED <<issued, now>>
    /\ UNCHANGED populate
    /\ appUnchanged

\* callback p has answered
FinishCallback(p) ==
    /\ callback[p].pc = "consumed"
    /\ callback' = [callback EXCEPT ![p] = IdleCallback]
    /\ UNCHANGED <<oauth_states, issued, accepted, now>>
    /\ UNCHANGED populate
    /\ appUnchanged

\* time passes
Tick ==
    /\ now + TickMinutes <= MaxTime
    /\ now' = now + TickMinutes
    /\ UNCHANGED <<oauth_states, issued, accepted, callback>>
    /\ UNCHANGED populate
    /\ appUnchanged

NextOAuth ==
    \/ \E s \in Tokens : issue_state(s)
    \/ \E p \in Callbacks, s \in Tokens : ReceiveCallback(p, s)
    \/ \E p \in Callbacks : ConsumeState(p)
    \/ \E p \in Callbacks : FinishCallback(p)
    \/ Tick

(***************************************************************************)
(* Two-pass enrichment engine (spec.md 4.5, steps 1 to 7 and 10)           *)
(***************************************************************************)
engineUnchanged == UNCHANGED <<appVars, oauthVars>>

\* "any field absent or null in the response remains missing"
Missing(v) == v \in {Null, Absent}

\* a merge that takes whatever pass 2 returned
MergeSearchedFirst(targets, residual, pass1, pass2) ==
    [f \in targets |->
        IF ~Missing(pass2[f]) THEN [value |-> pass2[f], source |-> "web_search"]
        ELSE IF ~Missing(pass1[f]) THEN [value |-> pass1[f], source |-> "source_text"]
        ELSE NotFound]

\* step 7: the pass-1 values, and for each residual field the non-null value
\* of pass 2
Merge(targets, residual, pass1, pass2) ==
    [f \in targets |->
        IF f \in residual /\ ~Missing(pass2[f])
        THEN [value |-> pass2[f], source |-> "web_search"]
        ELSE IF ~Missing(pass1[f]) THEN [value |-> pass1[f], source |-> "source_text"]
        ELSE NotFound]

\* steps 1 and 2: the empty fields of the record; none is a no-op success
resolve_targets(targets) ==
    /\ populate.pc = "idle"
    /\ populate' = IF targets = {} THEN [IdlePopulate EXCEPT !.pc = "done"]
                   ELSE [IdlePopulate EXCEPT !.pc = "source", !.targets = targets]
    /\ engineUnchanged

\* step 3: the page text, mandatory for pass 1
acquire_source(readable) ==
    /\ populate.pc = "source"
    /\ populate' = [populate EXCEPT !.pc = IF readable THEN "pass1" ELSE "failed"]
    /\ engineUnchanged

\* steps 4 and 5: the response of pass 1 and the residual set
pass_1(reply) ==
    /\ populate.pc = "pass1"
    /\ LET residual == {f \in populate.targets :
                            Missing(reply[f]) /\ f \in web_searchable}
       IN  populate' = [populate EXCEPT
                !.pass1 = reply, !.residual = residual,
                !.pass2 = [f \in populate.targets |-> Absent],
                !.pc = IF residual = {} THEN "merge" ELSE "pass2"]
    /\ engineUnchanged

\* step 6: the response of pass 2, or its exception swallowed
pass_2(reply, raised) ==
    /\ populate.pc = "pass2"
    /\ populate' = [populate EXCEPT
            !.pass2 = IF raised THEN [f \in populate.targets |-> Absent] ELSE reply,
            !.pc = "merge"]
    /\ engineUnchanged

\* step 7
merge ==
    /\ populate.pc = "merge"
    /\ populate' = [populate EXCEPT
            !.final = Merge(populate.targets, populate.residual,
                            populate.pass1, populate.pass2),
            !.pc = "merged"]
    /\ engineUnchanged

\* step 10: the request has answered
report ==
    /\ populate.pc \in {"merged", "done", "failed"}
    /\ populate' = IdlePopulate
    /\ engineUnchanged

NextEnrich ==
    \/ \E targets \in SUBSET Fields : resolve_targets(targets)
    \/ \E readable \in BOOLEAN : acquire_source(readable)
    \/ \E reply \in [populate.targets -> Pass1Values] : pass_1(reply)
    \/ \E reply \in [populate.targets -> Pass2Values], raised \in BOOLEAN :
          pass_2(reply, raised)
    \/ merge
    \/ report

(***************************************************************************)
(* Specifications                                                          *)
(***************************************************************************)
\* The state space explored: at most `words` dictionary documents and `logs`
\* log documents inserted, at most `questions` questions generated
Explored(words, logs, questions) ==
    /\ next_oid.dictionary <= words + 1
    /\ next_oid.learning_log <= logs + 1
    /\ Len(generated) <= questions

\* at most MaxInserts documents inserted and questions generated, all told
ExploredAll ==
    (next_oid.dictionary - 1) + (next_oid.learning_log - 1) + Len(generated)
        <= MaxInserts

\* the credentials used where the stored data is the subject
PlainRegisterInputs ==
    {d \in RegisterInputs : d.json /\ d.username \in {Ann, Bob}
                            /\ d.password = Secret /\ d.email = <<>>}
PlainLoginInputs ==
    {d \in LoginInputs : d.json /\ d.username \in {Ann, Bob} /\ d.password = Secret}

\* the authentication routes, every input
NextAuth ==
    \/ \E c \in Clients, data \in RegisterInputs : register(c, data)
    \/ \E c \in Clients, data \in LoginInputs : login(c, data)
    \/ \E c \in Clients : logout(c)
    \/ \E c \in Clients : get_current_user(c)
    \/ \E c \in Clients : check_auth(c)

\* the same with the API key configured
InitKey == Init /\ api_key

SpecAuth == InitKey /\ [][NextAuth]_vars

\* the OAuth state store, with the other service at rest
InitOAuth == InitKey /\ db = "connected"

SpecOAuth == InitOAuth /\ [][NextOAuth]_vars

\* the payloads of the concurrent requests: one username in two spellings
ConcurrentRegisterInputs ==
    {d \in RegisterInputs : d.json /\ d.password = Secret
                            /\ Lower(Strip(d.username)) = Ann}

\* register requests in two threads
NextRegister ==
    \/ \E c \in Clients, data \in ConcurrentRegisterInputs : register(c, data)
    \/ \E t \in Threads, c \in Clients, data \in ConcurrentRegisterInputs :
          register_find_username(t, c, data)
    \/ \E t \in Threads : register_find_email(t)
    \/ \E t \in Threads : register_insert(t)

SpecRegister == InitKey /\ [][NextRegister]_vars

\* /exercise requested from two browsers by two users
SharedExerciseInputs ==
    {d \in ExerciseInputs : d.json /\ d.topics # <<>> /\ d.dictionary_words = <<>>
                             /\ d.exercise_type = "translation"}

NextShared ==
    \/ \E c \in Clients, data \in PlainRegisterInputs : register(c, data)
    \/ \E c \in Clients, data \in PlainLoginInputs : login(c, data)
    \/ \E c \in Clients, data \in SharedExerciseInputs, llm_ok \in BOOLEAN :
          get_exercise(c, "POST", data, llm_ok) /\ Explored(0, 0, MaxShared)'

SpecShared == InitKey /\ [][NextShared]_vars

\* the enrichment engine, one populate request after the other
SpecEnrich == InitOAuth /\ [][NextEnrich]_vars

\* generate_exercise, call after call
NextHistory ==
    \E data \in ExerciseInputs, llm_ok \in BOOLEAN :
        call_generate_exercise(data, llm_ok) /\ Explored(0, 0, MaxGenerated)'

SpecHistory == Init /\ [][NextHistory]_vars

\* the learning-log routes of two users in two browsers
NextLog ==
    \/ \E c \in Clients, data \in PlainRegisterInputs : register(c, data)
    \/ \E c \in Clients, data \in PlainLoginInputs : login(c, data)
    \/ \E c \in Clients : logout(c)
    \/ \E c \in Clients : get_log(c)
    \/ \E c \in Clients, data \in AddLogInputs :
          add_to_log(c, data) /\ Explored(0, MaxLogs, 0)'
    \/ \E c \in Clients : clear_log(c)

SpecLog == InitKey /\ [][NextLog]_vars

\* one browser, used by one user after the other
Browser == {1}

\* at most MaxDocs documents inserted, all told
ExploredData ==
    (next_oid.dictionary - 1) + (next_oid.learning_log - 1) <= MaxDocs

\* the dictionary and the learning-log routes together
NextData ==
    \/ \E c \in Browser, data \in PlainRegisterInputs : register(c, data)
    \/ \E c \in Browser : logout(c)
    \/ \E c \in Browser : get_dictionary(c)
    \/ \E c \in Browser, data \in AddWordInputs :
          add_to_dictionary(c, data) /\ ExploredData'
    \/ \E c \in Browser, word_id \in WordIdInputs, data \in UpdateWordInputs :
          update_dictionary_word(c, word_id, data)
    \/ \E c \in Browser, word_id \in WordIdInputs : delete_dictionary_word(c, word_id)
    \/ \E c \in Browser, data \in SyncInputs :
          sync_dictionary(c, data) /\ ExploredData'
    \/ \E c \in Browser : get_log(c)
    \/ \E c \in Browser, data \in AddLogInputs :
          add_to_log(c, data) /\ ExploredData'
    \/ \E c \in Browser : clear_log(c)

SpecData == InitKey /\ [][NextData]_vars

\* the inputs of the data routes used where every route is explored
PlainAddWordInputs == {d \in AddWordInputs : d.json /\ d.german = "Hund"
                                               /\ d.id = ClientId}
PlainUpdateWordInputs == {d \in UpdateWordInputs : d.json /\ d.german = "Katze"}
PlainWordIdInputs == {w \in WordIdInputs : w.val \in {ClientId, 1, 0}}
PlainSyncInputs == {d \in SyncInputs : d.json /\ Len(d.words) = 1
                                       /\ d.words[1].id = NoId}
PlainExerciseInputs == {d \in ExerciseInputs : d.json /\ d.dictionary_words = <<>>
                                               /\ d.exercise_type = "grammar"}

\* every route, requests handled one at a time
Next ==
    \/ \E c \in Browser, data \in PlainRegisterInputs : register(c, data)
    \/ \E c \in Browser, data \in PlainLoginInputs : login(c, data)
    \/ \E c \in Browser : logout(c)
    \/ \E c \in Browser : get_current_user(c)
    \/ \E c \in Browser : check_auth(c)
    \/ \E c \in Browser : health(c)
    \/ \E c \in Browser : get_dictionary(c)
    \/ \E c \in Browser, data \in PlainAddWordInputs :
          add_to_dictionary(c, data) /\ ExploredAll'
    \/ \E c \in Browser, word_id \in PlainWordIdInputs, data \in PlainUpdateWordInputs :
          update_dictionary_word(c, word_id, data)
    \/ \E c \in Browser, word_id \in PlainWordIdInputs :
          delete_dictionary_word(c, word_id)
    \/ \E c \in Browser, data \in PlainSyncInputs :
          sync_dictionary(c, data) /\ ExploredAll'
    \/ \E c \in Browser : get_log(c)
    \/ \E c \in Browser, data \in AddLogInputs :
          add_to_log(c, data) /\ ExploredAll'
    \/ \E c \in Browser : clear_log(c)
    \/ \E c \in Browser, method \in Methods, data \in PlainExerciseInputs,
          llm_ok \in BOOLEAN :
          get_exercise(c, method, data, llm_ok)
          /\ ExploredAll'
    \/ \E c \in Browser, method \in Methods, json \in BOOLEAN, filled \in BOOLEAN :
          check_answer_route(c, method, json, filled)
    \/ \E c \in Browser, method \in Methods, json \in BOOLEAN, filled \in BOOLEAN :
          analyze_word_route(c, method, json, filled)

Spec == Init /\ [][Next]_vars

(***************************************************************************)
(* Properties                                                              *)
(***************************************************************************)
ProtectedRoutes ==
    {"get_current_user", "get_dictionary", "add_to_dictionary",
     "update_dictionary_word", "delete_dictionary_word", "sync_dictionary",
     "get_log", "add_to_log", "clear_log", "get_exercise", "check_answer_route",
     "analyze_word_route"}

\* the step is a request to `route` made by client c
Request(route, c) == resp'.route = route /\ resp'.client = c

\* C1: a request to a login_required route on a session without user_id is
\* answered 401 with auth_required, and the wrapped handler does not run: no
\* collection is read or written, no LLM call is made, exercise_history and
\* the session stay as they are.
C1_LoginRequired ==
    [][\A c \in Clients, route \in ProtectedRoutes :
          Request(route, c) /\ "user_id" \notin DOMAIN session[c] =>
            /\ resp'.status = 401
            /\ resp'.auth_required
            /\ ~io'.handler_ran
            /\ io'.db_ops = 0
            /\ io'.llm_calls = 0
            /\ UNCHANGED <<users_collection, dictionary_collection, log_collection,
                           next_oid, exercise_history, generated, session>>]_vars

\* C1 witness: /exercise was refused while exercise_history held an entry
C1_Witness ==
    /\ resp.route = "get_exercise"
    /\ resp.status = 401
    /\ resp.auth_required
    /\ exercise_history # <<>>
    /\ users_collection # {}

\* C2: whenever generate_exercise has returned, successful or not,
\* exercise_history holds at most MAX_HISTORY entries.
C2_HistoryBounded == Len(exercise_history) <= MAX_HISTORY

\* C2 witness: a failing call returned after more than MAX_HISTORY successful
\* ones, the list being full
C2_Witness ==
    /\ Len(generated) > MAX_HISTORY
    /\ Len(exercise_history) = MAX_HISTORY
    /\ resp.route = "generate_exercise"
    /\ resp.question = ErrorText

\* the last n elements of a sequence, n <= Len
LastN(seq, n) == [i \in 1..n |-> seq[Len(seq) - n + i]]

\* C3: exercise_history is the (at most MAX_HISTORY) most recent generated
\* questions, each cut to its first 100 characters, oldest first.
C3_HistoryIsRecent ==
    LET n == IF Len(generated) <= 20 THEN Len(generated) ELSE 20
        recent == LastN(generated, n)
    IN  /\ Len(exercise_history) = n
        /\ \A i \in 1..n :
              /\ Len(recent[i]) <= 100 => exercise_history[i] = recent[i]
              /\ Len(recent[i]) > 100 =>
                    /\ Len(exercise_history[i]) = 100
                    /\ \A k \in 1..100 : exercise_history[i][k] = recent[i][k]

\* C3 witness: the oldest question was evicted and a question longer than 100
\* characters is held cut
C3_Witness ==
    /\ Len(generated) > MAX_HISTORY
    /\ Len(exercise_history) = MAX_HISTORY
    /\ Len(generated[Len(generated)]) > HISTORY_SLICE
    /\ Len(exercise_history[MAX_HISTORY]) = HISTORY_SLICE
    /\ exercise_history[1] # <<>>
    /\ exercise_history[1][1] = ToString(Len(generated) - MAX_HISTORY + 1)

\* the user of client c's session before the step
Actor(c) == IF "user_id" \in DOMAIN session[c] THEN session[c]["user_id"] ELSE NoUser

DataRoutes ==
    {"get_dictionary", "add_to_dictionary", "update_dictionary_word",
     "delete_dictionary_word", "sync_dictionary", "get_log", "add_to_log",
     "clear_log"}

\* C4: a dictionary or log request of a logged-in user A leaves the documents
\* of every other user as they are, and its response holds no document of
\* another user.
C4_Isolation ==
    [][\A c \in Clients, route \in DataRoutes :
          Request(route, c) /\ "user_id" \in DOMAIN session[c] =>
            /\ {d \in dictionary_collection' : d.user_id # Actor(c)}
                  = {d \in dictionary_collection : d.user_id # Actor(c)}
            /\ {d \in log_collection' : d.user_id # Actor(c)}
                  = {d \in log_collection : d.user_id # Actor(c)}
            /\ \A i \in DOMAIN resp'.docs : resp'.docs[i].user_id = Actor(c)]_vars

\* C4 witness: a user changed a word whose id a word of another user carries
\* too
C4_Witness ==
    /\ resp.route = "update_dictionary_word"
    /\ resp.status = 200
    /\ \E d, e \in dictionary_collection :
          /\ d.user_id # get_current_user_id(session[resp.client])
          /\ e.user_id = get_current_user_id(session[resp.client])
          /\ d.id = ClientId
          /\ e.id = ClientId
          /\ d.german # e.german

\* C5 as claimed: GET /health answers a JSON body whose status field is "ok".
C5_HealthOk ==
    resp.route = "health" => resp.json /\ resp.status_field = "ok"

\* C5 as amended: GET /health answers 200 with a JSON body whose status
\* field is "healthy"; with MONGODB_URI unset at start-up (db unbound) it
\* answers 500 without a JSON body.
C5_HealthHealthy ==
    resp.route = "health" =>
        IF db = "undefined"
        THEN resp.status = 500 /\ ~resp.json
        ELSE resp.status = 200 /\ resp.json /\ resp.status_field = "healthy"

\* C5 witness: /health answered with exercise_history not empty
C5_Witness ==
    /\ resp.route = "health"
    /\ resp.status = 200
    /\ resp.total_count = 1

\* C6: login sets the session's user_id to the id of a user only if that
\* user's username is the submitted one, stripped and lower-cased, and the
\* submitted password matches the stored hash; a login answered 400, 401 or
\* 500 leaves the session as it was.  No login touches another session.
C6_Login ==
    [][\A c \in Clients :
          Request("login", c) =>
            /\ \A o \in Clients \ {c} : session'[o] = session[o]
            /\ IF resp'.status = 200
               THEN \E u \in users_collection :
                      /\ u.username = Lower(Strip(io'.credentials.username))
                      /\ u.password_hash = <<"hash", io'.credentials.password>>
                      /\ session'[c]["user_id"] = <<"oid", u._id>>
                      /\ session'[c]["username"] = u.username
               ELSE /\ resp'.status \in {400, 401, 500}
                    /\ session'[c] = session[c]]_vars

\* C6 witness: a login with a wrong password was refused on a session that is
\* logged in as another user
C6_Witness ==
    /\ resp.route = "login"
    /\ resp.status = 401
    /\ "user_id" \in DOMAIN session[resp.client]
    /\ \E u \in users_collection :
          /\ u.username = Lower(Strip(io.credentials.username))
          /\ u.username # session[resp.client]["username"]

\* C7: logout answers 200 and leaves the session empty; a session without
\* user_id gets 401 from every login_required route, and gets a user_id
\* only by a login or register on it that succeeds.
C7_Logout ==
    [][\A c \in Clients :
          /\ Request("logout", c) =>
                resp'.status = 200 /\ DOMAIN session'[c] = {}
          /\ "user_id" \notin DOMAIN session[c] =>
                /\ \A route \in ProtectedRoutes :
                      Request(route, c) => resp'.status = 401
                /\ "user_id" \in DOMAIN session'[c] =>
                      \/ Request("login", c) /\ resp'.status = 200
                      \/ Request("register", c) /\ resp'.status = 201]_vars

\* C7 witness: a login_required route answered 401 on a session that a user
\* had logged out of
C7_Witness ==
    /\ resp.route \in ProtectedRoutes
    /\ resp.status = 401
    /\ DOMAIN session[resp.client] = {}
    /\ \E u \in users_collection : u.last_login = "now"

\* C8: sync_dictionary modifies and deletes no document; a document it
\* inserts belongs to the user and its german value is none of the user's
\* server words read at the start; in the 200 response added_count is the
\* number of documents inserted and total_count is the user's word count
\* before the call plus added_count.
C8_Sync ==
    [][\A c \in Clients :
          Request("sync_dictionary", c) /\ "user_id" \in DOMAIN session[c] =>
            LET before == {d \in dictionary_collection : d.user_id = Actor(c)}
                inserted == dictionary_collection' \ dictionary_collection
            IN  /\ dictionary_collection \subseteq dictionary_collection'
                /\ \A d \in inserted :
                      /\ d.user_id = Actor(c)
                      /\ \A w \in before : w.german # d.german
                /\ resp'.status = 200 =>
                      /\ resp'.added_count = Cardinality(inserted)
                      /\ resp'.total_count =
                            Cardinality(before) + resp'.added_count]_vars

\* C8 witness: a sync added a word to a dictionary that held one already
C8_Witness ==
    /\ resp.route = "sync_dictionary"
    /\ resp.status = 200
    /\ resp.added_count = 1
    /\ resp.total_count = 2

\* C9: clear_log deletes the entries of the current user and no other,
\* deleted_count is the number of the user's entries before the call, and
\* the get_log of the same user that comes next returns an empty list.
C9_ClearLog ==
    [][\A c \in Clients :
          /\ Request("clear_log", c) /\ resp'.status = 200 =>
                /\ log_collection' =
                      {d \in log_collection : d.user_id # Actor(c)}
                /\ resp'.deleted_count =
                      Cardinality({d \in log_collection : d.user_id = Actor(c)})
          /\ ( /\ resp.route = "clear_log"
               /\ resp.status = 200
               /\ Request("get_log", c)
               /\ resp'.status = 200
               /\ Actor(c) = Actor(resp.client) ) => resp'.docs = <<>>]_vars

\* C9 witness: clear_log deleted two entries of one user and left an entry
\* of another
C9_Witness ==
    /\ resp.route = "clear_log"
    /\ resp.deleted_count = 2
    /\ log_collection # {}

\* callback p runs consume_state in this step
Consumes(p) == callback[p].pc = "received" /\ callback'[p].pc = "consumed"

\* the minutes since token s was issued
Age(s) == now - (CHOOSE r \in issued : r.state_token = s).created_at

WasIssued(s) == \E r \in issued : r.state_token = s

\* C10: consume_state returns true at most once per issued token: true, with
\* the token deleted, for a token issued less than 10 minutes earlier and not
\* accepted before; false for a token accepted before, issued more than 10
\* minutes earlier or never issued; so of two callbacks with the same token
\* at most one obtains true.
C10_ConsumeOnce ==
    [][\A p \in Callbacks :
          Consumes(p) =>
            LET s == callback[p].state
                result == callback'[p].result
            IN  /\ WasIssued(s) /\ Age(s) < 10 /\ accepted[s] = 0 =>
                      /\ result
                      /\ \A r \in oauth_states' : r.state_token # s
                /\ accepted[s] > 0 => ~result
                /\ WasIssued(s) /\ Age(s) > 10 => ~result
                /\ ~WasIssued(s) => ~result
                /\ accepted'[s] <= 1
                /\ \A q \in Callbacks \ {p} :
                      callback[q].pc = "consumed" /\ callback[q].state = s
                      /\ callback[q].result => ~result]_vars

\* C10 witness: two callbacks in flight carried the same token; one was
\* accepted, the other refused
C10_Witness ==
    /\ callback[1].pc = "consumed"
    /\ callback[2].pc = "consumed"
    /\ callback[1].state = callback[2].state
    /\ callback[1].result
    /\ ~callback[2].result

\* C11: in the merge of the two passes, every field for which pass 1 produced a
\* non-null value ends with that value, marked as found in the source text;
\* a field ends with the pass-2 value only where pass 1 left it null or
\* absent (and pass 2 returned a non-null value for it)
C11_MergePrecedence ==
    populate.pc = "merged" =>
        \A f \in populate.targets :
            /\ ~Missing(populate.pass1[f]) =>
                    populate.final[f] = [value |-> populate.pass1[f],
                                         source |-> "source_text"]
            /\ populate.final[f].source = "web_search" =>
                    /\ Missing(populate.pass1[f])
                    /\ ~Missing(populate.pass2[f])
                    /\ populate.final[f].value = populate.pass2[f]

\* C11 witness: pass 2 returned a value for every field; "industry", which
\* pass 1 had found, kept the pass-1 value, and "phone", which pass 1 had
\* returned as null, took the pass-2 value
C11_Witness ==
    /\ populate.pc = "merged"
    /\ populate.targets = Fields
    /\ populate.pass1["industry"] = "grounded"
    /\ populate.pass1["phone"] = Null
    /\ \A f \in Fields : populate.pass2[f] = "searched"
    /\ populate.final["industry"].value = "grounded"
    /\ populate.final["phone"].value = "searched"

\* C12: in every reachable state no two user documents have the same
\* username, however the find_one and the insert_one of concurrent register
\* requests interleave
C12_UniqueUsername ==
    \A u \in users_collection, v \in users_collection :
        u.username = v.username => u = v

\* what a register request of client c did, given the statuses it may answer:
\* 201 with exactly one document inserted, for the submitted username and
\* email (stripped, lower-cased), the session's user_id and username set to
\* the new document's whatever the session held, and none of the reasons to
\* reject; 400 with one of the four reasons, no document inserted and the
\* session as it was; 500 with no document inserted and the session as it was
RegisterOutcome(c, statuses) ==
    LET username == Lower(Strip(io'.credentials.username))
        password == io'.credentials.password
        email == Lower(Strip(io'.credentials.email))
        inserted == users_collection' \ users_collection
        rejected ==
            \/ Len(username) < MIN_USERNAME
            \/ Len(password) < MIN_PASSWORD
            \/ \E u \in users_collection : u.username = username
            \/ email # <<>> /\ \E u \in users_collection : u.email = email
    IN  /\ resp'.status \in statuses
        /\ users_collection \subseteq users_collection'
        /\ \A o \in Clients \ {c} : session'[o] = session[o]
        /\ resp'.status = 201 =>
              /\ ~rejected
              /\ \E u \in inserted :
                    /\ inserted = {u}
                    /\ \A v \in users_collection : v._id # u._id
                    /\ u.username = username
                    /\ u.email = email
                    /\ session'[c]["user_id"] = StrOid(u._id)
                    /\ session'[c]["username"] = username
                    /\ resp'.user = StrOid(u._id)
        /\ resp'.status = 400 =>
              /\ rejected
              /\ inserted = {}
              /\ session'[c] = session[c]
        /\ resp'.status = 500 =>
              /\ inserted = {}
              /\ session'[c] = session[c]

\* C13 as stated: register answers 201 or 400, and nothing else
C13_RegisterOutcomes ==
    [][\A c \in Clients :
          Request("register", c) => RegisterOutcome(c, {201, 400})]_vars

\* C13, amended: register answers 201, 400 or 500.  201: exactly one user
\* document inserted and the session's user_id set to its id, replacing any
\* identity the session held.  400: the username is shorter than 3 characters
\* after strip, the password is shorter than 6, the username exists or the
\* non-empty email is registered; no document inserted, session unchanged.
\* 500 (database not connected, or a body that is not JSON): no document
\* inserted, session unchanged.  An empty email is never a reason to reject.
C13_RegisterOutcomes500 ==
    [][\A c \in Clients :
          Request("register", c) => RegisterOutcome(c, {201, 400, 500})]_vars

\* C13 witness: a register without email answered 201 for a client that was
\* logged in, when a user without email was registered already
C13_Witness ==
    /\ resp.route = "register"
    /\ resp.status = 201
    /\ io.credentials.email = <<>>
    /\ session[resp.client]["user_id"] = resp.user
    /\ \E u \in users_collection, v \in users_collection :
          /\ StrOid(u._id) = resp.user
          /\ v # u
          /\ v.email = <<>>
          /\ u.email = <<>>

\* C14: whenever generate_exercise sends a prompt, it is the
\* dictionary_practice prompt if dictionary_words is not empty, whatever
\* exercise_type is; with no dictionary words it is the prompt of
\* exercise_type, and the translation prompt if exercise_type is not a key of
\* prompts
C14_PromptSelection ==
    resp.route \in {"generate_exercise", "get_exercise"} /\ io.llm_calls = 1 =>
        /\ io.dictionary_words # <<>> => io.prompt_key = "dictionary_practice"
        /\ io.dictionary_words = <<>> /\ io.exercise_type \in PromptKeys =>
                io.prompt_key = io.exercise_type
        /\ io.dictionary_words = <<>> /\ io.exercise_type \notin PromptKeys =>
                io.prompt_key = "translation"

\* C14 witness: a grammar exercise was requested with a dictionary word, and
\* the dictionary_practice prompt was sent
C14_Witness ==
    /\ resp.route = "generate_exercise"
    /\ io.llm_calls = 1
    /\ io.exercise_type = "grammar"
    /\ io.dictionary_words # <<>>
    /\ io.prompt_key = "dictionary_practice"

\* C15: exercise_history is one list for the whole process.  The "previous
\* exercises" of an /exercise request that reaches the model are the last 5
\* questions (cut to 100 characters) that earlier successful requests
\* obtained, whoever made them: the requests of other users are part of the
\* prompt of this one.
C15_SharedHistory ==
    [][\A c \in Clients :
          Request("get_exercise", c) /\ io'.llm_calls = 1 =>
            LET n == Len(generated)
                m == Len(io'.recent)
            IN  /\ m = Min(RECENT, n)
                /\ \A k \in 1..m :
                      io'.recent[m - k + 1] = Prefix(generated[n - k + 1], HISTORY_SLICE)
                /\ n > 0 /\ asked_by[n] # Actor(c) =>
                      io'.recent[m] = Prefix(generated[n], HISTORY_SLICE)]_vars

\* C15 witness: a logged-in user's /exercise request sent five previous
\* exercises, every one of them obtained by another user
C15_Witness ==
    /\ resp.route = "get_exercise"
    /\ io.llm_calls = 1
    /\ resp.question = ErrorText
    /\ Len(io.recent) = RECENT
    /\ Len(generated) > RECENT
    /\ \A k \in 1..RECENT :
          /\ io.recent[k] = Prefix(generated[Len(generated) - RECENT + k], HISTORY_SLICE)
          /\ asked_by[Len(generated) - RECENT + k]
                \notin {Actor(resp.client), NoUser}

=============================================================================
